---- MODULE Spec2Model ----
(***************************************************************************)
(* A model of the VAE class of models/vae.py (construction, the lazily     *)
(* built encoder projection, forward, nll, loss_function, get_name).       *)
(*                                                                         *)
(* Tensors are modelled by their shapes (sequences of integers); the       *)
(* numbers a tensor holds are modelled only where a claim is about them    *)
(* (the per-row nll, kld and mutual information of loss_function), and     *)
(* then as integers chosen from a small range.  Python strings that end    *)
(* up in get_name() are sequences of one-character strings, so that str(), *)
(* concatenation, strip/lower/replace are computed as Python computes them.*)
(* Batch-statistics layers, activations, DataParallel and .cuda() keep the *)
(* shape of what flows through them and are modelled as the identity on    *)
(* shapes.                                                                 *)
(***************************************************************************)
EXTENDS Integers, Sequences, FiniteSets, TLC

(***************************************************************************)
(* Bounds of the model.                                                    *)
(***************************************************************************)
MaxBatch == 2      \* batch sizes of the tensors handed to the model: 1..MaxBatch
MaxGrow == 1       \* image sides offered to forward: 28 and 32 + 4k, k in 0..MaxGrow
MaxVal == 1        \* per-row values of nll / kld / mutual_info: 0..MaxVal
MaxBuilds == 3     \* cap on the number of constructions of enc_proj

(***************************************************************************)
(* Python strings as sequences of characters.                              *)
(***************************************************************************)
LowerAlphabet == <<"a", "b", "c", "d", "e", "f", "g", "h", "i", "j", "k", "l", "m", "n", "o", "p", "q", "r", "s", "t", "u", "v", "w", "x", "y", "z">>
UpperAlphabet == <<"A", "B", "C", "D", "E", "F", "G", "H", "I", "J", "K", "L", "M", "N", "O", "P", "Q", "R", "S", "T", "U", "V", "W", "X", "Y", "Z">>
DigitChars == <<"0", "1", "2", "3", "4", "5", "6", "7", "8", "9">>

\* The characters of the string values a config can hold.
Chars(s) ==
  CASE s = "isotropic_gaussian" -> <<"i", "s", "o", "t", "r", "o", "p", "i", "c", "_", "g", "a", "u", "s", "s", "i", "a", "n">>
    [] s = "discrete" -> <<"d", "i", "s", "c", "r", "e", "t", "e">>
    [] s = "mixture" -> <<"m", "i", "x", "t", "u", "r", "e">>
    [] s = "bernoulli" -> <<"b", "e", "r", "n", "o", "u", "l", "l", "i">>
    [] s = "gaussian" -> <<"g", "a", "u", "s", "s", "i", "a", "n">>
    [] s = "conv" -> <<"c", "o", "n", "v">>
    [] s = "dense" -> <<"d", "e", "n", "s", "e">>
    [] s = "mnist" -> <<"m", "n", "i", "s", "t">>
    [] s = "bogus" -> <<"b", "o", "g", "u", "s">>

\* str(n) of a Python int n >= 0
RECURSIVE IntStr(_)
IntStr(n) == IF n < 10 THEN <<DigitChars[n + 1]>>
             ELSE IntStr(n \div 10) \o <<DigitChars[(n % 10) + 1]>>

\* The digits of a decimal fraction given in thousandths (0..999), without
\* trailing zeros but with at least one digit: 300 -> "3", 1 -> "001", 0 -> "0"
FracStr(m) ==
  LET d1 == DigitChars[(m \div 100) + 1]
      d2 == DigitChars[((m \div 10) % 10) + 1]
      d3 == DigitChars[(m % 10) + 1]
  IN  IF m % 10 # 0 THEN <<d1, d2, d3>>
      ELSE IF m % 100 # 0 THEN <<d1, d2>>
      ELSE <<d1>>

\* str(f) of a Python float f >= 0.001 or f = 0, held in thousandths:
\* 300 -> "0.3", 1 -> "0.001", 1000 -> "1.0"
FloatStr(milli) == IntStr(milli \div 1000) \o <<".">> \o FracStr(milli % 1000)

\* str(l) of a Python list of ints: [1, 28, 28] -> "[1, 28, 28]"
RECURSIVE JoinInts(_)
JoinInts(l) == IF l = <<>> THEN <<>>
               ELSE IF Len(l) = 1 THEN IntStr(l[1])
               ELSE IntStr(l[1]) \o <<",", " ">> \o JoinInts(Tail(l))

ListStr(l) == <<"[">> \o JoinInts(l) \o <<"]">>

IsSpace(c) == c \in {" ", "\t", "\n", "\r"}

\* str.strip(): leading and trailing whitespace removed
RECURSIVE LStrip(_)
LStrip(s) == IF s # <<>> /\ IsSpace(Head(s)) THEN LStrip(Tail(s)) ELSE s

RECURSIVE RStrip(_)
RStrip(s) == IF s # <<>> /\ IsSpace(s[Len(s)]) THEN RStrip(SubSeq(s, 1, Len(s) - 1)) ELSE s

Strip(s) == RStrip(LStrip(s))

\* str.lower()
LowerChar(c) == IF \E i \in 1..26 : UpperAlphabet[i] = c
                THEN LowerAlphabet[CHOOSE i \in 1..26 : UpperAlphabet[i] = c]
                ELSE c

Lower(s) == [i \in 1..Len(s) |-> LowerChar(s[i])]

\* str.replace(c, '') and str.replace(c, d) for single characters
Remove(s, c) == SelectSeq(s, LAMBDA ch : ch # c)

Replace(s, c, d) == [i \in 1..Len(s) |-> IF s[i] = c THEN d ELSE s[i]]

(***************************************************************************)
(* Shapes and the layers' shape arithmetic.                                *)
(***************************************************************************)
RECURSIVE Prod(_)
Prod(shape) == IF shape = <<>> THEN 1 ELSE Head(shape) * Prod(Tail(shape))

\* models.layers.View(shape): tensor.view(*shape), with one entry -1 that is
\* inferred from the number of elements; the view fails when the number of
\* elements is not a multiple of the product of the other entries.
View(shape, x) ==
  LET known == Prod(SelectSeq(shape, LAMBDA d : d # -1))
      n == Prod(x)
  IN  IF n % known # 0 THEN [outcome |-> "RuntimeError", shape |-> <<>>]
      ELSE [outcome |-> "ok",
            shape |-> [i \in 1..Len(shape) |-> IF shape[i] = -1 THEN n \div known ELSE shape[i]]]

\* nn.Conv2d output side for an input side n, kernel k, stride s (no padding);
\* 0 stands for the error torch raises when the kernel is larger than the input
Conv2dOut(n, k, s) == IF n < k THEN 0 ELSE ((n - k) \div s) + 1

\* nn.ConvTranspose2d output side for an input side n, kernel k, stride s
ConvTranspose2dOut(n, k, s) == (n - 1) * s + k

\* The side after the five spatial convolutions of the conv encoder
\* (kernel, stride) = (5,1) (4,2) (4,1) (4,2) (4,1); the two 1x1 convolutions
\* that follow keep the side.
EncoderConvSide(n) ==
  LET s1 == Conv2dOut(n, 5, 1)
      s2 == IF s1 = 0 THEN 0 ELSE Conv2dOut(s1, 4, 2)
      s3 == IF s2 = 0 THEN 0 ELSE Conv2dOut(s2, 4, 1)
      s4 == IF s3 = 0 THEN 0 ELSE Conv2dOut(s3, 4, 2)
      s5 == IF s4 = 0 THEN 0 ELSE Conv2dOut(s4, 4, 1)
  IN  s5

\* The side after the five transposed convolutions of the conv decoder
\* (kernel, stride) = (4,1) (4,2) (4,1) (4,2) (5,1), starting from side n
DecoderConvSide(n) ==
  ConvTranspose2dOut(ConvTranspose2dOut(ConvTranspose2dOut(
    ConvTranspose2dOut(ConvTranspose2dOut(n, 4, 1), 4, 2), 4, 1), 4, 2), 5, 1)

bilinear_size == <<32, 32>>

(***************************************************************************)
(* Construction.                                                           *)
(***************************************************************************)
NoReparameterizer == [kind |-> "none", input_size |-> 0, output_size |-> 0]

\* The reparameterizer classes (models.isotropic_gaussian, models.gumbel,
\* models.mixture): the widths they take and give.
Reparameterizer(cfg) ==
  CASE cfg.reparam_type = "isotropic_gaussian" ->
         [kind |-> "isotropic_gaussian",
          input_size |-> 2 * cfg.continuous_size,
          output_size |-> cfg.continuous_size]
    [] cfg.reparam_type = "discrete" ->
         [kind |-> "discrete",
          input_size |-> cfg.discrete_size,
          output_size |-> cfg.discrete_size]
    [] cfg.reparam_type = "mixture" ->
         [kind |-> "mixture",
          input_size |-> 2 * cfg.continuous_size + cfg.discrete_size,
          output_size |-> cfg.continuous_size + cfg.discrete_size]
    [] OTHER -> NoReparameterizer

NoLayers == [outcome |-> "none", kind |-> "none", resize |-> "none",
             in_chans |-> 0, in_features |-> 0, out_width |-> 0,
             out_shape |-> <<>>, parallel |-> FALSE, cuda |-> FALSE]

\* VAE.build_encoder
build_encoder(input_shape, chans, cfg, rep) ==
  IF cfg.layer_type = "conv"
  THEN [NoLayers EXCEPT !.outcome = "ok", !.kind = "conv",
          !.resize = IF Tail(input_shape) # bilinear_size THEN "upsample" ELSE "identity",
          !.in_chans = chans, !.out_width = rep.input_size,
          !.parallel = cfg.ngpu > 1, !.cuda = cfg.cuda]
  ELSE IF cfg.layer_type = "dense"
  THEN [NoLayers EXCEPT !.outcome = "ok", !.kind = "dense",
          !.in_features = Prod(input_shape), !.out_width = rep.input_size,
          !.parallel = cfg.ngpu > 1, !.cuda = cfg.cuda]
  ELSE [NoLayers EXCEPT !.outcome = "Exception"]

\* VAE.build_decoder
build_decoder(input_shape, chans, cfg, rep) ==
  IF cfg.layer_type = "conv"
  THEN [NoLayers EXCEPT !.outcome = "ok", !.kind = "conv",
          !.resize = IF Tail(input_shape) # bilinear_size THEN "upsample" ELSE "identity",
          !.in_features = rep.output_size, !.out_width = chans,
          !.out_shape = Tail(input_shape),
          !.parallel = cfg.ngpu > 1, !.cuda = cfg.cuda]
  ELSE IF cfg.layer_type = "dense"
  THEN [NoLayers EXCEPT !.outcome = "ok", !.kind = "dense",
          !.in_features = rep.output_size, !.out_width = Prod(input_shape),
          !.out_shape = input_shape,
          !.parallel = cfg.ngpu > 1, !.cuda = cfg.cuda]
  ELSE [NoLayers EXCEPT !.outcome = "Exception"]

\* __init__ with the isotropic gaussian as the fall-through branch of the
\* reparameterizer selection instead of the raise
VAE_init_fallthrough(input_shape, cfg) ==
  LET chans == IF input_shape[1] > 1 THEN 3 ELSE 1
      known == cfg.reparam_type \in {"isotropic_gaussian", "discrete", "mixture"}
      rep == IF known THEN Reparameterizer(cfg)
             ELSE Reparameterizer([cfg EXCEPT !.reparam_type = "isotropic_gaussian"])
      enc == build_encoder(input_shape, chans, cfg, rep)
      dec == build_decoder(input_shape, chans, cfg, rep)
  IN  IF enc.outcome # "ok"
      THEN [outcome |-> enc.outcome, chans |-> chans,
            reparameterizer |-> rep, encoder |-> NoLayers, decoder |-> NoLayers]
      ELSE IF dec.outcome # "ok"
      THEN [outcome |-> dec.outcome, chans |-> chans,
            reparameterizer |-> rep, encoder |-> enc, decoder |-> NoLayers]
      ELSE [outcome |-> "ok", chans |-> chans,
            reparameterizer |-> rep, encoder |-> enc, decoder |-> dec]

\* VAE.__init__: the attributes of the new object, or the exception raised
VAE_init(input_shape, cfg) ==
  LET chans == IF input_shape[1] > 1 THEN 3 ELSE 1
      rep == Reparameterizer(cfg)
      enc == build_encoder(input_shape, chans, cfg, rep)
      dec == build_decoder(input_shape, chans, cfg, rep)
  IN  IF cfg.reparam_type \notin {"isotropic_gaussian", "discrete", "mixture"}
      THEN [outcome |-> "Exception", chans |-> chans,
            reparameterizer |-> NoReparameterizer, encoder |-> NoLayers, decoder |-> NoLayers]
      ELSE IF enc.outcome # "ok"
      THEN [outcome |-> enc.outcome, chans |-> chans,
            reparameterizer |-> rep, encoder |-> NoLayers, decoder |-> NoLayers]
      ELSE IF dec.outcome # "ok"
      THEN [outcome |-> dec.outcome, chans |-> chans,
            reparameterizer |-> rep, encoder |-> enc, decoder |-> NoLayers]
      ELSE [outcome |-> "ok", chans |-> chans,
            reparameterizer |-> rep, encoder |-> enc, decoder |-> dec]

(***************************************************************************)
(* get_name                                                                *)
(***************************************************************************)
\* get_name with the lazily built layer's width in the identifier
get_name_with_proj(input_shape, cfg, proj) ==
  <<"v", "a", "e", "_">> \o Chars(cfg.task)
    \o <<"_", "i", "n", "p", "u", "t">> \o Remove(Remove(Remove(Replace(ListStr(input_shape), ",", "_"), " "), "["), "]")
    \o <<"l", "a", "t", "e", "n", "t">> \o IntStr(cfg.continuous_size)
    \o (IF proj.present THEN IntStr(proj.in_features) ELSE <<>>)

\* VAE.get_name; proj is the object's enc_proj attribute, which the code does
\* not read
get_name(input_shape, cfg, proj) ==
  LET param_str == IF cfg.reparam_type = "mixture"
                   THEN <<"_", "d", "i", "s", "c">> \o IntStr(cfg.discrete_size)
                        \o <<"_", "c", "o", "n", "t">> \o IntStr(cfg.continuous_size)
                   ELSE <<"l", "a", "t", "e", "n", "t">> \o IntStr(cfg.continuous_size)
      full_hash_str ==
           <<"_", "i", "n", "p", "u", "t">> \o ListStr(input_shape)
        \o param_str
        \o <<"_", "b", "a", "t", "c", "h">> \o IntStr(cfg.batch_size)
        \o <<"_", "m", "u", "t">> \o FloatStr(cfg.mut_reg)
        \o <<"_", "f", "i", "l", "t", "e", "r", "_", "d", "e", "p", "t", "h">> \o IntStr(cfg.filter_depth)
        \o <<"_", "n", "l", "l">> \o Chars(cfg.nll_type)
        \o <<"_", "r", "e", "p", "a", "r", "a", "m">> \o Chars(cfg.reparam_type)
        \o <<"_", "l", "r">> \o FloatStr(cfg.lr)
      r1 == Remove(Lower(Strip(full_hash_str)), "[")
      r2 == Remove(r1, "]")
      r3 == Remove(r2, " ")
      r4 == Remove(r3, "{")
      r5 == Remove(r4, "}")
      r6 == Replace(r5, ",", "_")
      r7 == Remove(r6, ":")
      r8 == Remove(r7, "(")
      r9 == Remove(r8, ")")
      r10 == Remove(r9, "'")
  IN  <<"v", "a", "e", "_">> \o Chars(cfg.task) \o r10

(***************************************************************************)
(* Calls on a constructed model.                                           *)
(***************************************************************************)
NoAttr == [present |-> FALSE, in_features |-> 0, out_features |-> 0,
           parallel |-> FALSE, cuda |-> FALSE]

\* The encoder applied to a batch x = <<batch, channels, height, width>>
EncoderApply(enc, x) ==
  IF enc.kind = "conv"
  THEN LET h == IF enc.resize = "upsample" THEN bilinear_size[1] ELSE x[3]
           w == IF enc.resize = "upsample" THEN bilinear_size[2] ELSE x[4]
           oh == EncoderConvSide(h)
           ow == EncoderConvSide(w)
       IN  IF x[2] # enc.in_chans \/ oh = 0 \/ ow = 0
           THEN [outcome |-> "RuntimeError", shape |-> <<>>]
           ELSE [outcome |-> "ok", shape |-> <<x[1], enc.out_width, oh, ow>>]
  ELSE LET v == View(<<-1, enc.in_features>>, x)
       IN  IF v.outcome # "ok" THEN v
           ELSE [outcome |-> "ok", shape |-> <<v.shape[1], enc.out_width>>]

\* _lazy_init_dense without the hasattr guard: the layer is set on every call
_lazy_init_dense_unguarded(proj, builds, cfg, input_size, output_size) ==
  [enc_proj |-> [present |-> TRUE, in_features |-> input_size,
                 out_features |-> output_size,
                 parallel |-> cfg.ngpu > 1, cuda |-> cfg.cuda],
   builds |-> builds + 1]

\* VAE._lazy_init_dense: the enc_proj attribute and the number of times it
\* has been set, after the call
_lazy_init_dense(proj, builds, cfg, input_size, output_size) ==
  IF ~proj.present
  THEN [enc_proj |-> [present |-> TRUE, in_features |-> input_size,
                      out_features |-> output_size,
                      parallel |-> cfg.ngpu > 1, cuda |-> cfg.cuda],
        builds |-> builds + 1]
  ELSE [enc_proj |-> proj, builds |-> builds]

\* enc_proj applied: View([-1, in_features]) then Linear(in_features, out_features)
ProjApply(proj, x) ==
  LET v == View(<<-1, proj.in_features>>, x)
  IN  IF v.outcome # "ok" THEN v
      ELSE [outcome |-> "ok", shape |-> <<v.shape[1], proj.out_features>>]

\* encode sizing the projection with the reparameterizer's output width
encode_output_width(enc, rep, proj, builds, cfg, x) ==
  LET conv == EncoderApply(enc, x)
      conv_output_shp == Prod(Tail(conv.shape))
      lazy == _lazy_init_dense(proj, builds, cfg, conv_output_shp, rep.output_size)
      out == ProjApply(lazy.enc_proj, conv.shape)
  IN  IF conv.outcome # "ok"
      THEN [outcome |-> conv.outcome, shape |-> <<>>, conv_output_shp |-> 0,
            enc_proj |-> proj, builds |-> builds]
      ELSE [outcome |-> out.outcome, shape |-> out.shape,
            conv_output_shp |-> conv_output_shp,
            enc_proj |-> lazy.enc_proj, builds |-> lazy.builds]

\* VAE.encode: the projected logits, the measured encoder output width and
\* the enc_proj attribute after the call
encode(enc, rep, proj, builds, cfg, x) ==
  LET conv == EncoderApply(enc, x)
      conv_output_shp == Prod(Tail(conv.shape))
      lazy == _lazy_init_dense(proj, builds, cfg, conv_output_shp, rep.input_size)
      out == ProjApply(lazy.enc_proj, conv.shape)
  IN  IF conv.outcome # "ok"
      THEN [outcome |-> conv.outcome, shape |-> <<>>, conv_output_shp |-> 0,
            enc_proj |-> proj, builds |-> builds]
      ELSE [outcome |-> out.outcome, shape |-> out.shape,
            conv_output_shp |-> conv_output_shp,
            enc_proj |-> lazy.enc_proj, builds |-> lazy.builds]

\* The reparameterizer applied to logits: a sample z of width output_size per
\* row; logits of another width than input_size cannot be split
reparameterize(rep, logits) ==
  IF logits[2] # rep.input_size
  THEN [outcome |-> "RuntimeError", shape |-> <<>>]
  ELSE [outcome |-> "ok", shape |-> <<logits[1], rep.output_size>>]

\* VAE.decode: the decoder applied to z
decode(dec, z) ==
  IF dec.kind = "conv"
  THEN LET v == View(<<-1, dec.in_features, 1, 1>>, z)
           side == DecoderConvSide(1)
       IN  IF v.outcome # "ok" THEN v
           ELSE [outcome |-> "ok",
                 shape |-> IF dec.resize = "upsample"
                           THEN <<v.shape[1], dec.out_width>> \o dec.out_shape
                           ELSE <<v.shape[1], dec.out_width, side, side>>]
  ELSE LET v == View(<<-1, dec.in_features>>, z)
           w == IF v.outcome = "ok" THEN View(<<-1>> \o dec.out_shape, <<v.shape[1], dec.out_width>>)
                ELSE v
       IN  w

\* nll_bernoulli without its assertion, the sizes being those of the logits
nll_bernoulli_unasserted(recon_x_logits, x, vals) ==
  [outcome |-> "ok", nll |-> vals]

\* VAE.nll_bernoulli: one value per batch row, or the assertion failing
nll_bernoulli(recon_x_logits, x, vals) ==
  IF x # recon_x_logits
  THEN [outcome |-> "AssertionError", nll |-> <<>>]
  ELSE [outcome |-> "ok", nll |-> vals]

\* VAE.nll_gaussian: the helpers _z, _log_unnormalized_prob and
\* _log_normalization are local functions, not attributes of self, so the
\* lookup self._log_unnormalized_prob raises
nll_gaussian(recon_x_logits, x, vals) ==
  [outcome |-> "AttributeError", nll |-> <<>>]

\* VAE.nll
nll(cfg, recon_x, x, vals) ==
  IF cfg.nll_type = "gaussian" THEN nll_gaussian(recon_x, x, vals)
  ELSE IF cfg.nll_type = "bernoulli" THEN nll_bernoulli(recon_x, x, vals)
  ELSE [outcome |-> "KeyError", nll |-> <<>>]

\* loss_function with the regularizer added instead of subtracted
loss_function_added(cfg, recon_x, x, vals, kld, mi) ==
  LET n == nll(cfg, recon_x, x, vals)
      elbo == [i \in 1..Len(n.nll) |-> n.nll[i] + kld[i]]
      called == cfg.reparam_type = "mixture"
      mut_info == [i \in 1..Len(n.nll) |-> IF called THEN 0 + mi[i] ELSE 0]
  IN  IF n.outcome # "ok"
      THEN [outcome |-> n.outcome, nll |-> <<>>, kld |-> <<>>, mut_info |-> <<>>,
            mi_called |-> FALSE, loss |-> <<>>]
      ELSE [outcome |-> "ok", nll |-> n.nll, kld |-> kld, mut_info |-> mut_info,
            mi_called |-> called,
            loss |-> [i \in 1..Len(n.nll) |-> 1000 * elbo[i] + cfg.mut_reg * mut_info[i]]]

\* VAE.loss_function; mut_reg is held in thousandths, so the loss is too.
\* kld and mi are what reparameterizer.kl(params) and
\* reparameterizer.mutual_info(params) return.
loss_function(cfg, recon_x, x, vals, kld, mi) ==
  LET n == nll(cfg, recon_x, x, vals)
      elbo == [i \in 1..Len(n.nll) |-> n.nll[i] + kld[i]]
      called == cfg.reparam_type = "mixture"
      mut_info == [i \in 1..Len(n.nll) |-> IF called THEN 0 + mi[i] ELSE 0]
  IN  IF n.outcome # "ok"
      THEN [outcome |-> n.outcome, nll |-> <<>>, kld |-> <<>>, mut_info |-> <<>>,
            mi_called |-> FALSE, loss |-> <<>>]
      ELSE [outcome |-> "ok", nll |-> n.nll, kld |-> kld, mut_info |-> mut_info,
            mi_called |-> called,
            loss |-> [i \in 1..Len(n.nll) |-> 1000 * elbo[i] - cfg.mut_reg * mut_info[i]]]

(***************************************************************************)
(* The state: one VAE object and the outcome of the last call on it.       *)
(***************************************************************************)
VARIABLES
  input_shape,      \* the constructor's input_shape, then self.input_shape
  config,           \* the constructor's kwargs['kwargs'], then self.config
  obj,              \* "pending", "constructed", or the constructor raised: "Exception"
  chans,            \* self.chans
  reparameterizer,  \* self.reparameterizer
  encoder,          \* self.encoder
  decoder,          \* self.decoder
  enc_proj,         \* self.enc_proj; NoAttr while the object has no such attribute
  enc_proj_builds,  \* how many times setattr(self, 'enc_proj', nn.Sequential(...)) ran
  result,           \* the last call: its arguments, and what it returned or raised
  first_name,       \* what the first get_name() call returned
  other,            \* a second model, for comparing names
  args,             \* main.py: the parsed command line (args)
  pc,               \* main.py: where the script is
  np_seed,          \* the seed of numpy's generator; Unseeded until seeded
  torch_seed,       \* the seed of torch's generators; Unseeded until seeded
  sampler_i,        \* get_model_and_loader: the variable i the sampler lambdas close over
  loaders,          \* get_model_and_loader: the loaders built so far
  model,            \* run: the model returned by get_model_and_loader
  optimizer,        \* run: the optimizer
  TOTAL_ITER,       \* main.py: the global counter
  frame,            \* run / train: loader index, num_epochs, epoch, batch_idx
  batches_done,     \* the number of training batches train has completed
  grad_check,       \* helpers/utils.py: a backward hook call and what it printed
  bern              \* nll_bernoulli on one element: logit, target and intermediate values

vars == <<input_shape, config, obj, chans, reparameterizer, encoder, decoder,
          enc_proj, enc_proj_builds, result, first_name, other,
          args, pc, np_seed, torch_seed, sampler_i, loaders, model, optimizer,
          TOTAL_ITER, frame, batches_done, grad_check, bern>>

\* The variables of the VAE object and of the calls on it
vaeVars == <<input_shape, config, obj, chans, reparameterizer, encoder, decoder,
             enc_proj, enc_proj_builds, result, first_name, other>>

\* The variables of the driver (main.py)
driverVars == <<args, pc, np_seed, torch_seed, sampler_i, loaders, model, optimizer,
                TOTAL_ITER, frame, batches_done>>

\* The variables of the element-wise checks (helpers/utils.py, nll_bernoulli)
elemVars == <<grad_check, bern>>

Unseeded == -1

NoArgs == [task |-> "none"]
NoModel == [built |-> FALSE, enc_proj |-> FALSE]
NoOptimizer == [built |-> FALSE, enc_proj_params |-> FALSE]
NoFrame == [loader |-> 0, num_epochs |-> 0, epoch |-> 0, batch_idx |-> 0, logged |-> FALSE]
NoGradCheck == [called |-> FALSE]
NoBern == [called |-> FALSE]

\* The driver is not running
DriverIdle ==
  /\ args = NoArgs
  /\ pc = "idle"
  /\ np_seed = Unseeded
  /\ torch_seed = Unseeded
  /\ sampler_i = -1
  /\ loaders = <<>>
  /\ model = NoModel
  /\ optimizer = NoOptimizer
  /\ TOTAL_ITER = 0
  /\ frame = NoFrame
  /\ batches_done = 0

\* No element-wise check is running
ElemIdle ==
  /\ grad_check = NoGradCheck
  /\ bern = NoBern

\* No VAE object is under test
VaeIdle ==
  /\ input_shape = <<>>
  /\ config = [task |-> "none"]
  /\ obj = "none"
  /\ chans = 0
  /\ reparameterizer = NoReparameterizer
  /\ encoder = NoLayers
  /\ decoder = NoLayers
  /\ enc_proj = NoAttr
  /\ enc_proj_builds = 0
  /\ result = [op |-> "idle"]
  /\ first_name = [called |-> FALSE]
  /\ other = [present |-> FALSE]

NoResult == [op |-> "none", outcome |-> "none", x |-> <<>>, had_proj |-> FALSE,
             conv_output_shp |-> 0, logits |-> <<>>, recon |-> <<>>,
             recon_x |-> <<>>, target |-> <<>>, params |-> [kld |-> <<>>, mi |-> <<>>],
             nll |-> <<>>, kld |-> <<>>, mut_info |-> <<>>, mi_called |-> FALSE,
             loss |-> <<>>, name |-> <<>>]

NoName == [called |-> FALSE, name |-> <<>>, had_proj |-> FALSE]

NoOther == [present |-> FALSE, input_shape |-> <<>>, config |-> [task |-> "none"], name |-> <<>>]

ReparamTypes == {"isotropic_gaussian", "discrete", "mixture", "bogus"}
LayerTypes == {"conv", "dense", "bogus"}
NllTypes == {"bernoulli", "gaussian", "bogus"}
InputShapes == {<<1, 28, 28>>, <<1, 32, 32>>, <<3, 32, 32>>}

\* The configs a VAE is constructed with
Configs ==
  [reparam_type : ReparamTypes, layer_type : LayerTypes, nll_type : NllTypes,
   filter_depth : {32}, batch_size : {64}, mut_reg : {0, 300},
   discrete_size : {3}, continuous_size : {2},
   cuda : {FALSE}, ngpu : {1}, task : {"mnist"}, lr : {1}]

\* The batches handed to forward: <<batch, channels, height, width>>
Sides == {28} \cup {32 + 4 * k : k \in 0..MaxGrow}
Batches == {<<b, c, s, s>> : b \in 1..MaxBatch, c \in {1, 3}, s \in Sides}

\* The reconstruction / target shapes handed to nll and loss_function
NllShapes == {<<b, 1, s, s>> : b \in 1..MaxBatch, s \in {28, 32}}

\* Per-row values of a tensor with n rows
Rows(n) == [1..n -> 0..MaxVal]

\* One tensor with n rows, where only the shapes are of interest
OneRow(n) == {[i \in 1..n |-> 1]}

Init ==
  /\ input_shape \in InputShapes
  /\ config \in Configs
  /\ obj = "pending"
  /\ chans = 0
  /\ reparameterizer = NoReparameterizer
  /\ encoder = NoLayers
  /\ decoder = NoLayers
  /\ enc_proj = NoAttr
  /\ enc_proj_builds = 0
  /\ result = NoResult
  /\ first_name = NoName
  /\ other = NoOther
  /\ DriverIdle
  /\ ElemIdle

\* VAE(input_shape, kwargs=config)
Construct ==
  /\ obj = "pending"
  /\ result.op = "none"
  /\ LET new == VAE_init(input_shape, config)
     IN  /\ obj' = IF new.outcome = "ok" THEN "constructed" ELSE new.outcome
         /\ chans' = new.chans
         /\ reparameterizer' = new.reparameterizer
         /\ encoder' = new.encoder
         /\ decoder' = new.decoder
  /\ result' = [NoResult EXCEPT !.op = "__init__"]
  /\ UNCHANGED <<input_shape, config, enc_proj, enc_proj_builds, first_name, other, driverVars, elemVars>>

\* model.forward(x)
Forward ==
  /\ obj = "constructed"
  /\ result.op = "none"
  /\ enc_proj_builds < MaxBuilds
  /\ \E x \in Batches :
       LET e == encode(encoder, reparameterizer, enc_proj, enc_proj_builds, config, x)
           z == IF e.outcome = "ok" THEN reparameterize(reparameterizer, e.shape) ELSE e
           d == IF z.outcome = "ok" THEN decode(decoder, z.shape)
                ELSE [outcome |-> z.outcome, shape |-> <<>>]
       IN  /\ enc_proj' = e.enc_proj
           /\ enc_proj_builds' = e.builds
           /\ result' = [NoResult EXCEPT !.op = "forward", !.outcome = d.outcome,
                           !.x = x, !.had_proj = enc_proj.present,
                           !.conv_output_shp = e.conv_output_shp,
                           !.logits = e.shape, !.recon = d.shape]
  /\ UNCHANGED <<input_shape, config, obj, chans, reparameterizer, encoder, decoder,
                 first_name, other, driverVars, elemVars>>

\* model.nll(recon_x, x)
Nll ==
  /\ obj = "constructed"
  /\ result.op = "none"
  /\ \E recon_x \in NllShapes, x \in NllShapes :
       \E vals \in OneRow(recon_x[1]) :
         LET n == nll(config, recon_x, x, vals)
         IN  result' = [NoResult EXCEPT !.op = "nll", !.outcome = n.outcome,
                          !.recon_x = recon_x, !.target = x, !.nll = n.nll]
  /\ UNCHANGED <<input_shape, config, obj, chans, reparameterizer, encoder, decoder,
                 enc_proj, enc_proj_builds, first_name, other, driverVars, elemVars>>

\* model.loss_function(recon_x, x, params), the tensors' values drawn from Values[rows]
LossFunctionOn(Values) ==
  /\ obj = "constructed"
  /\ result.op = "none"
  /\ \E recon_x \in NllShapes, x \in NllShapes :
       \E vals \in Values[recon_x[1]], kld \in Values[recon_x[1]], mi \in Values[recon_x[1]] :
         LET l == loss_function(config, recon_x, x, vals, kld, mi)
         IN  result' = [NoResult EXCEPT !.op = "loss_function", !.outcome = l.outcome,
                          !.recon_x = recon_x, !.target = x,
                          !.params = [kld |-> kld, mi |-> mi],
                          !.nll = l.nll, !.kld = l.kld, !.mut_info = l.mut_info,
                          !.mi_called = l.mi_called, !.loss = l.loss]
  /\ UNCHANGED <<input_shape, config, obj, chans, reparameterizer, encoder, decoder,
                 enc_proj, enc_proj_builds, first_name, other, driverVars, elemVars>>

LossFunction == LossFunctionOn([n \in 1..MaxBatch |-> OneRow(n)])

\* model.get_name()
GetName ==
  /\ obj = "constructed"
  /\ result.op = "none"
  /\ LET name == get_name(input_shape, config, enc_proj)
     IN  /\ result' = [NoResult EXCEPT !.op = "get_name", !.outcome = "ok", !.name = name]
         /\ first_name' = IF first_name.called THEN first_name
                          ELSE [called |-> TRUE, name |-> name, had_proj |-> enc_proj.present]
  /\ UNCHANGED <<input_shape, config, obj, chans, reparameterizer, encoder, decoder,
                 enc_proj, enc_proj_builds, other, driverVars, elemVars>>

\* The caller takes what the call returned or raised; calls are sequential
Return ==
  /\ result.op # "none"
  /\ result' = NoResult
  /\ UNCHANGED <<input_shape, config, obj, chans, reparameterizer, encoder, decoder,
                 enc_proj, enc_proj_builds, first_name, other, driverVars, elemVars>>

Next == Construct \/ Forward \/ Nll \/ LossFunction \/ GetName \/ Return

Spec == Init /\ [][Next]_vars

(***************************************************************************)
(* loss_function on tensors of every value: a constructed model and        *)
(* loss_function calls only.                                               *)
(***************************************************************************)
LossConfigs ==
  [reparam_type : {"isotropic_gaussian", "discrete", "mixture"}, layer_type : {"dense"},
   nll_type : {"bernoulli", "gaussian"},
   filter_depth : {32}, batch_size : {64}, mut_reg : {0, 300, 1000},
   discrete_size : {3}, continuous_size : {2},
   cuda : {FALSE}, ngpu : {1}, task : {"mnist"}, lr : {1}]

InitLoss ==
  /\ input_shape = <<1, 28, 28>>
  /\ config \in LossConfigs
  /\ obj = "constructed"
  /\ chans = VAE_init(input_shape, config).chans
  /\ reparameterizer = VAE_init(input_shape, config).reparameterizer
  /\ encoder = VAE_init(input_shape, config).encoder
  /\ decoder = VAE_init(input_shape, config).decoder
  /\ enc_proj = NoAttr
  /\ enc_proj_builds = 0
  /\ result = NoResult
  /\ first_name = NoName
  /\ other = NoOther
  /\ DriverIdle
  /\ ElemIdle

LossFunctionValues == LossFunctionOn([n \in 1..MaxBatch |-> Rows(n)])

NextLoss == LossFunctionValues \/ Return

SpecLoss == InitLoss /\ [][NextLoss]_vars

(***************************************************************************)
(* get_name on two models: both are constructed and named.                 *)
(***************************************************************************)
MaxSize == 3       \* latent sizes of the models that are named: 2..MaxSize

NameShapes == {<<1, 28, 28>>, <<1, 32, 32>>}

\* The first model: every reparameterizer
NameConfigs ==
  [reparam_type : {"isotropic_gaussian", "discrete", "mixture"}, layer_type : {"conv"},
   nll_type : {"bernoulli"},
   filter_depth : {32}, batch_size : {64}, mut_reg : {300},
   discrete_size : {2}, continuous_size : {2},
   cuda : {FALSE}, ngpu : {1}, task : {"mnist"}, lr : {1}]

\* The second model: every hyperparameter that get_name reads varies
OtherConfigs ==
  [reparam_type : {"isotropic_gaussian", "discrete", "mixture"}, layer_type : {"conv"},
   nll_type : {"bernoulli", "gaussian"},
   filter_depth : {16, 32}, batch_size : {32, 64}, mut_reg : {0, 300},
   discrete_size : 2..MaxSize, continuous_size : 2..MaxSize,
   cuda : {FALSE}, ngpu : {1}, task : {"mnist"}, lr : {1, 10}]

InitName ==
  /\ input_shape = <<1, 28, 28>>
  /\ config \in NameConfigs
  /\ obj = "pending"
  /\ chans = 0
  /\ reparameterizer = NoReparameterizer
  /\ encoder = NoLayers
  /\ decoder = NoLayers
  /\ enc_proj = NoAttr
  /\ enc_proj_builds = 0
  /\ result = NoResult
  /\ first_name = NoName
  /\ \E shape \in NameShapes, cfg \in OtherConfigs :
       other = [present |-> TRUE, input_shape |-> shape, config |-> cfg, name |-> <<>>]
  /\ DriverIdle
  /\ ElemIdle

\* VAE(other.input_shape, kwargs=other.config).get_name()
OtherGetName ==
  /\ other.present
  /\ other.name = <<>>
  /\ VAE_init(other.input_shape, other.config).outcome = "ok"
  /\ other' = [other EXCEPT !.name = get_name(other.input_shape, other.config, NoAttr)]
  /\ UNCHANGED <<input_shape, config, obj, chans, reparameterizer, encoder, decoder,
                 enc_proj, enc_proj_builds, result, first_name, driverVars, elemVars>>

NextName == Construct \/ GetName \/ Return \/ OtherGetName

SpecName == InitName /\ [][NextName]_vars

(***************************************************************************)
(* Properties.                                                             *)
(***************************************************************************)
KnownReparamTypes == {"isotropic_gaussian", "discrete", "mixture"}
KnownLayerTypes == {"conv", "dense"}
KnownNllTypes == {"bernoulli", "gaussian"}

\* C1: enc_proj is set exactly once: the object has no such attribute until
\* a forward call has measured the encoder's output width, that call builds
\* the layer from the width it measured, and from then on no call sets the
\* attribute again or changes the layer.
EncProjBuiltOnce ==
  /\ [](enc_proj_builds = IF enc_proj.present THEN 1 ELSE 0)
  /\ [][ /\ enc_proj.present => enc_proj' = enc_proj /\ enc_proj_builds' = enc_proj_builds
         /\ (~enc_proj.present /\ enc_proj'.present) =>
               /\ result'.op = "forward"
               /\ enc_proj'.in_features = result'.conv_output_shp
         /\ (result.op = "none" /\ result'.op = "forward" /\ result'.conv_output_shp # 0) =>
               enc_proj'.present ]_vars

\* C1 witness: a forward call that found the layer of an earlier call and
\* ran through it
EncProjReused ==
  /\ result.op = "forward"
  /\ result.had_proj
  /\ result.outcome = "ok"
  /\ enc_proj.present

\* C2 (as claimed): a forward call on a sized model whose encoder output
\* width differs from the width the projection was sized for raises
LaterWidthRejected ==
  ( /\ result.op = "forward"
    /\ result.had_proj
    /\ result.conv_output_shp # 0
    /\ result.conv_output_shp # enc_proj.in_features )
  => result.outcome # "ok"

\* C4: once the constructor has run on a config with an unknown reparam_type
\* or layer_type it has raised, so a constructed VAE has known ones
UnknownTypesRaise ==
  /\ (obj # "pending" /\ (config.reparam_type \notin KnownReparamTypes
                          \/ config.layer_type \notin KnownLayerTypes))
       => obj = "Exception"
  /\ obj = "constructed" => /\ config.reparam_type \in KnownReparamTypes
                            /\ config.layer_type \in KnownLayerTypes

\* C4 witness: the constructor raised on an unknown reparam_type, and on an
\* unknown layer_type of a config whose reparam_type is known
UnknownTypeRaised ==
  /\ obj = "Exception"
  /\ \/ config.reparam_type \notin KnownReparamTypes
     \/ (config.layer_type \notin KnownLayerTypes /\ config.reparam_type \in KnownReparamTypes)

\* C5 (as claimed): a constructed VAE has a known nll_type
UnknownNllRaisesAtConstruction ==
  obj = "constructed" => config.nll_type \in KnownNllTypes

\* C6 (as claimed): nll on a reconstruction and a target of equal shape, under
\* either observation model, returns one value per batch row
NllReturnsPerRow ==
  ( /\ result.op = "nll"
    /\ config.nll_type \in KnownNllTypes
    /\ result.recon_x = result.target )
  => /\ result.outcome = "ok"
     /\ Len(result.nll) = result.recon_x[1]

NameIsStable ==
  (result.op = "get_name" /\ first_name.called) => result.name = first_name.name

\* C8 witness: get_name() was first called before the projection layer
\* existed and is called again after a forward call has built it
NamedBeforeAndAfterForward ==
  /\ result.op = "get_name"
  /\ first_name.called
  /\ ~first_name.had_proj
  /\ enc_proj.present

\* The hyperparameters C9 lists
NameRelevant(shape, cfg) ==
  <<shape, cfg.continuous_size, cfg.discrete_size, cfg.batch_size, cfg.mut_reg,
    cfg.filter_depth, cfg.nll_type, cfg.reparam_type, cfg.lr>>

\* C9 (as claimed): two models that differ in one of the listed
\* hyperparameters have different names
NamesDistinct ==
  ( /\ first_name.called
    /\ other.name # <<>>
    /\ NameRelevant(input_shape, config) # NameRelevant(other.input_shape, other.config) )
  => first_name.name # other.name

\* C10: the reparameterizer's sizes are those fixed by the config at
\* construction, the encoder and the projection give input_size columns, the
\* logits handed to the reparameterizer have input_size columns, and the
\* decoder is built for output_size columns
WidthsMatchReparameterizer ==
  /\ obj = "constructed" =>
       /\ reparameterizer = Reparameterizer(config)
       /\ encoder.out_width = reparameterizer.input_size
       /\ decoder.in_features = reparameterizer.output_size
  /\ enc_proj.present => enc_proj.out_features = reparameterizer.input_size
  /\ (result.op = "forward" /\ result.logits # <<>>) =>
       result.logits[2] = reparameterizer.input_size
  /\ (result.op = "forward" /\ result.outcome = "ok") =>
       /\ result.logits # <<>>
       /\ result.recon[1] = result.logits[1]

\* C10 witness: a second forward call went through encoder, projection,
\* reparameterizer and decoder
ForwardTwice ==
  /\ result.op = "forward"
  /\ result.outcome = "ok"
  /\ result.had_proj
  /\ result.logits[2] = reparameterizer.input_size
  /\ reparameterizer.input_size # reparameterizer.output_size

\* C3: the loss of every row is nll + kld - mut_reg * mut_info (in
\* thousandths, as mut_reg is), where mut_info is what mutual_info(params)
\* gives for a mixture model and 0, without a call of mutual_info, otherwise
LossIsElboMinusMutInfo ==
  (result.op = "loss_function" /\ result.outcome = "ok") =>
    /\ Len(result.loss) = result.recon_x[1]
    /\ result.mi_called <=> config.reparam_type = "mixture"
    /\ \A i \in 1..Len(result.loss) :
         result.loss[i] =
           1000 * (result.nll[i] + result.params.kld[i])
           - config.mut_reg * (IF config.reparam_type = "mixture"
                               THEN result.params.mi[i] ELSE 0)

\* C3 witness: the loss of a mixture model with a positive regularizer weight
\* and positive mutual information in a row
MixtureLossComputed ==
  /\ result.op = "loss_function"
  /\ result.outcome = "ok"
  /\ config.reparam_type = "mixture"
  /\ config.mut_reg > 0
  /\ \E i \in 1..Len(result.loss) : result.params.mi[i] > 0 /\ result.params.kld[i] > 0

(***************************************************************************)
(* main.py, start-up: the parsed command line, the seeding block, and      *)
(* get_model_and_loader.  The loader classes, ClassSampler, StudentTeacher *)
(* and Grapher are collaborators whose calls return normally.              *)
(***************************************************************************)
\* None, as the value of args.seed
PyNone == -1

\* The number of samplers and loaders: range(10)
NumClasses == 10

\* The names main.py binds by its imports and definitions before the
\* seeding block runs
ImportedNames == {"argparse", "np", "torch", "nn", "optim", "F", "Variable", "VAE",
                  "StudentTeacher", "ClassSampler", "CIFAR10Loader", "FashionMNISTLoader",
                  "ClutteredMNISTLoader", "MNISTLoader", "SVHNCenteredLoader",
                  "SVHNFullLoader", "Grapher", "parser", "args"}

\* The seeding functions the torch module has
TorchSeedFunctions == {"manual_seed"}

\* The command lines: argparse's namespace, with args.cuda added
CommandLines ==
  [task : {"mnist", "cifar10", "bogus"}, epochs : {1}, latent_size : {32},
   mixture_discrete_size : {32}, download : {1}, data_dir : {"./data_dir"},
   batch_size : {64}, filter_depth : {32},
   reparam_type : {"isotropic_gaussian", "discrete", "mixture"},
   layer_type : {"conv", "dense"}, nll_type : {"bernoulli", "gaussian"},
   lr : {1}, seed : {PyNone, 0, 1}, mut_reg : {300}, log_interval : {10},
   visdom_url : {"http://localhost"}, visdom_port : {8097},
   ngpu : {1}, no_cuda : {FALSE}, cuda : {FALSE}]

\* The module-level seeding block: the seeds of the two generators and
\* whether the block raised
seed_block(a) ==
  IF a.seed = PyNone
  THEN [outcome |-> "ok", np_seed |-> Unseeded, torch_seed |-> Unseeded]
  ELSE IF "numpy" \notin ImportedNames
  THEN [outcome |-> "NameError", np_seed |-> Unseeded, torch_seed |-> Unseeded]
  ELSE IF "manual_seed_all" \notin TorchSeedFunctions
  THEN [outcome |-> "AttributeError", np_seed |-> a.seed, torch_seed |-> Unseeded]
  ELSE [outcome |-> "ok", np_seed |-> a.seed, torch_seed |-> a.seed]

\* The value of i once the list comprehension that builds the samplers is
\* done; every lambda closes over this one variable
samplers_i == NumClasses - 1

\* samplers[k](x): the class_number the k-th lambda hands to ClassSampler when
\* it is called with the variable i holding the value cell
sampler_call(k, cell) == cell

\* loaders[0].img_shp of the tasks
img_shp(task) == IF task = "cifar10" THEN <<3, 32, 32>> ELSE <<1, 28, 28>>

\* get_model_and_loader up to the loaders: the list of loaders, each with the
\* class its sampler selects, or the exception for an unknown task
build_loaders(a) ==
  IF a.task \in {"cifar10", "mnist", "clutter", "svhn", "svhn_centered"}
  THEN [outcome |-> "ok",
        loaders |-> [k \in 1..NumClasses |->
                       [img_shp |-> img_shp(a.task),
                        class_number |-> sampler_call(k - 1, samplers_i)]]]
  ELSE [outcome |-> "Exception", loaders |-> <<>>]

\* The config keys VAE.__init__, build_encoder, build_decoder, get_name and
\* loss_function look up
VaeKeys == {"reparam_type", "layer_type", "nll_type", "filter_depth", "batch_size",
            "mut_reg", "discrete_size", "continuous_size", "cuda", "ngpu", "task", "lr"}

\* nn.ReLU, the default of VAE's activation_fn, and an int in its place
ReLU == [callable |-> TRUE]
IntValue(n) == [callable |-> FALSE, value |-> n]

\* VAE(input_shape, activation_fn, kwargs=cfg): what the constructor does with
\* the keys of cfg and with activation_fn, in the order of its statements
VAE_call(shape, activation_fn, cfg) ==
  IF "reparam_type" \notin DOMAIN cfg THEN "KeyError"
  ELSE IF cfg.reparam_type = "mixture"
          /\ ~({"discrete_size", "continuous_size"} \subseteq DOMAIN cfg) THEN "KeyError"
  ELSE IF cfg.reparam_type \notin {"isotropic_gaussian", "discrete", "mixture"} THEN "Exception"
  ELSE IF "layer_type" \notin DOMAIN cfg THEN "KeyError"
  ELSE IF cfg.layer_type \notin {"conv", "dense"} THEN "Exception"
  ELSE IF cfg.layer_type = "conv" /\ "filter_depth" \notin DOMAIN cfg THEN "KeyError"
  ELSE IF ~activation_fn.callable THEN "TypeError"
  ELSE IF ~(VaeKeys \subseteq DOMAIN cfg) THEN "KeyError"
  ELSE VAE_init(shape, cfg).outcome

InitMain ==
  /\ VaeIdle
  /\ ElemIdle
  /\ args \in CommandLines
  /\ pc = "parsed"
  /\ np_seed = Unseeded
  /\ torch_seed = Unseeded
  /\ sampler_i = -1
  /\ loaders = <<>>
  /\ model = NoModel
  /\ optimizer = NoOptimizer
  /\ TOTAL_ITER = 0
  /\ frame = NoFrame
  /\ batches_done = 0

\* main.py lines 75-79
Seeding ==
  /\ pc = "parsed"
  /\ LET b == seed_block(args)
     IN  /\ np_seed' = b.np_seed
         /\ torch_seed' = b.torch_seed
         /\ pc' = IF b.outcome = "ok" THEN "seeded" ELSE b.outcome
  /\ UNCHANGED <<args, sampler_i, loaders, model, optimizer, TOTAL_ITER, frame,
                 batches_done, vaeVars, elemVars>>

\* run -> get_model_and_loader, the samplers and the loaders
BuildLoaders ==
  /\ pc = "seeded"
  /\ LET b == build_loaders(args)
     IN  /\ sampler_i' = samplers_i
         /\ loaders' = b.loaders
         /\ pc' = IF b.outcome = "ok" THEN "loaders" ELSE b.outcome
  /\ UNCHANGED <<args, np_seed, torch_seed, model, optimizer, TOTAL_ITER, frame,
                 batches_done, vaeVars, elemVars>>

\* get_model_and_loader, the VAE, the StudentTeacher and the Grapher
BuildModel ==
  /\ pc = "loaders"
  /\ LET v == VAE_call(loaders[1].img_shp, IntValue(args.latent_size), args)
     IN  /\ pc' = IF v = "ok" THEN "built" ELSE v
         /\ model' = IF v = "ok" THEN [built |-> TRUE, enc_proj |-> FALSE] ELSE model
  /\ UNCHANGED <<args, np_seed, torch_seed, sampler_i, loaders, optimizer, TOTAL_ITER,
                 frame, batches_done, vaeVars, elemVars>>

NextMain == Seeding \/ BuildLoaders \/ BuildModel

SpecMain == InitMain /\ [][NextMain]_vars

\* C11 (as claimed): once the seeding block has run, a configured seed has
\* seeded numpy and torch and start-up goes on; with no seed nothing is seeded
SeedingSeedsBoth ==
  (pc \notin {"idle", "parsed"}) =>
    IF args.seed # PyNone
    THEN /\ np_seed = args.seed
         /\ torch_seed = args.seed
         /\ pc \notin {"NameError", "AttributeError"}
    ELSE /\ np_seed = Unseeded
         /\ torch_seed = Unseeded

\* C15 (as claimed): the sampler of the k-th loader selects class k
SamplersSelectOwnClass ==
  loaders # <<>> =>
    \A k \in 1..Len(loaders) : loaders[k].class_number = k - 1

\* C18 (as claimed): vars(args) has every key the VAE reads and the
\* construction in get_model_and_loader does not fail on a missing key or on
\* an argument of the wrong type
DriverConfigSuffices ==
  (pc \in {"built", "KeyError", "TypeError"}) =>
    /\ VaeKeys \subseteq DOMAIN args
    /\ pc = "built"

(***************************************************************************)
(* helpers/utils.py, register_nan_checks: the backward hook on one module. *)
(***************************************************************************)
MaxGrads == 2      \* entries of grad_input: 1..MaxGrads
MaxElems == 2      \* elements of a gradient tensor: 0..MaxElems

ModuleNames == {"Linear", "Conv2d"}

\* An entry of grad_input: None, or a tensor whose elements are NaN or a number
GradTensors ==
  UNION {[1..n -> {"nan", "num"}] : n \in 0..MaxElems}

GradEntries ==
  {[none |-> TRUE, data |-> <<>>]} \cup {[none |-> FALSE, data |-> t] : t \in GradTensors}

GradInputs == UNION {[1..n -> GradEntries] : n \in 1..MaxGrads}

\* np.all(np.isnan(gi.data.cpu().numpy()))
AllNan(t) == \A j \in 1..Len(t) : t[j] = "nan"

\* check_grad(module, grad_input, grad_output): what it prints; it returns
\* None, which leaves the gradients as they are
check_grad(module, grad_input) ==
  [outcome |-> "ok",
   printed |-> IF \E i \in 1..Len(grad_input) :
                    ~grad_input[i].none /\ AllNan(grad_input[i].data)
               THEN <<[text |-> "NaN gradient in ", name |-> module]>>
               ELSE <<>>,
   grad_input |-> grad_input]

InitHook ==
  /\ VaeIdle
  /\ DriverIdle
  /\ grad_check = NoGradCheck
  /\ bern = NoBern

\* A backward pass reaches a module on which register_nan_checks put the hook
BackwardHook ==
  /\ ~grad_check.called
  /\ \E module \in ModuleNames, grad_input \in GradInputs :
       LET c == check_grad(module, grad_input)
       IN  grad_check' = [called |-> TRUE, module |-> module, grad_input |-> grad_input,
                          outcome |-> c.outcome, printed |-> c.printed,
                          grad_after |-> c.grad_input]
  /\ UNCHANGED <<bern, vaeVars, driverVars>>

\* The backward pass goes on
HookReturn ==
  /\ grad_check.called
  /\ grad_check' = NoGradCheck
  /\ UNCHANGED <<bern, vaeVars, driverVars>>

NextHook == BackwardHook \/ HookReturn

SpecHook == InitHook /\ [][NextHook]_vars

\* C12 (as claimed): when a NaN is present in the gradient inputs of a module,
\* the hook prints a message naming the module; it never raises and leaves
\* the gradients as they were
NanIsReported ==
  grad_check.called =>
    /\ grad_check.outcome = "ok"
    /\ grad_check.grad_after = grad_check.grad_input
    /\ (\E i \in 1..Len(grad_check.grad_input) :
          /\ ~grad_check.grad_input[i].none
          /\ \E j \in 1..Len(grad_check.grad_input[i].data) :
               grad_check.grad_input[i].data[j] = "nan")
       => \E k \in 1..Len(grad_check.printed) :
            grad_check.printed[k].name = grad_check.module

(***************************************************************************)
(* nll_bernoulli on one element of the logits.                             *)
(***************************************************************************)
MaxLogit == 50     \* logits: -MaxLogit..MaxLogit

\* exp(a) in thousandths for an integer a: 1000 at 0, below 1000 and falling
\* to 0 for a < 0, above 1000 for a > 0 (Huge beyond what fits)
Huge == 2000000000

RECURSIVE ExpMilli(_)
ExpMilli(a) ==
  IF a = 0 THEN 1000
  ELSE IF a < 0 THEN (ExpMilli(a + 1) * 368) \div 1000
  ELSE IF a > 14 THEN Huge
  ELSE (ExpMilli(a - 1) * 2718) \div 1000

\* tensor.clamp(min=m) on one element
ClampMin(v, m) == IF v < m THEN m ELSE v

\* nll_bernoulli with the clamp taken of the logits instead of their negation
nll_bernoulli_terms_unnegated(l, x) ==
  LET max_val == ClampMin(l, 0)
      a1 == -max_val
      a2 == -l - max_val
  IN  [logit |-> l, x |-> x, max_val |-> max_val, exp_arg1 |-> a1, exp_arg2 |-> a2,
       log_arg |-> ExpMilli(a1) + ExpMilli(a2),
       linear |-> l - l * x + max_val]

\* nll_bernoulli on one element: max_val, the arguments of the two
\* exponentials, the argument of the logarithm (in thousandths) and the part
\* of the result outside the logarithm
nll_bernoulli_terms(l, x) ==
  LET max_val == ClampMin(-l, 0)
      a1 == -max_val
      a2 == -l - max_val
  IN  [logit |-> l, x |-> x, max_val |-> max_val, exp_arg1 |-> a1, exp_arg2 |-> a2,
       log_arg |-> ExpMilli(a1) + ExpMilli(a2),
       linear |-> l - l * x + max_val]

InitBernoulli ==
  /\ VaeIdle
  /\ DriverIdle
  /\ grad_check = NoGradCheck
  /\ bern = NoBern

\* nll_bernoulli reaches one element of recon_x_logits and x
NllBernoulliElement ==
  /\ ~bern.called
  /\ \E l \in (-MaxLogit)..MaxLogit, x \in {0, 1} :
       LET t == nll_bernoulli_terms(l, x)
       IN  bern' = [called |-> TRUE, logit |-> t.logit, x |-> t.x, max_val |-> t.max_val,
                    exp_arg1 |-> t.exp_arg1, exp_arg2 |-> t.exp_arg2,
                    log_arg |-> t.log_arg, linear |-> t.linear]
  /\ UNCHANGED <<grad_check, vaeVars, driverVars>>

\* on to the next element
NextElement ==
  /\ bern.called
  /\ bern' = NoBern
  /\ UNCHANGED <<grad_check, vaeVars, driverVars>>

NextBernoulli == NllBernoulliElement \/ NextElement

SpecBernoulli == InitBernoulli /\ [][NextBernoulli]_vars

\* C13: for every logit, max_val is max(-l, 0), neither exponential is taken
\* of a positive number, one of the two is taken of 0, and the argument of
\* the logarithm lies in [1, 2]
ExponentsNonPositive ==
  bern.called =>
    /\ bern.max_val = (IF bern.logit < 0 THEN -bern.logit ELSE 0)
    /\ bern.exp_arg1 <= 0
    /\ bern.exp_arg2 <= 0
    /\ bern.exp_arg1 = 0 \/ bern.exp_arg2 = 0
    /\ bern.log_arg >= 1000
    /\ bern.log_arg <= 2000

\* C13 witness: the largest negative logit, where the naive form overflows
LargeNegativeLogit ==
  /\ bern.called
  /\ bern.logit = -MaxLogit
  /\ bern.exp_arg2 = 0
  /\ bern.exp_arg1 = -MaxLogit

(***************************************************************************)
(* main.py, run from the return of get_model_and_loader on: the lazy       *)
(* forward pass, the optimizer and the training loop.  The loaders are the *)
(* ten of build_loaders, each with the same number of training batches.    *)
(***************************************************************************)
MaxEpochs == 1          \* args.epochs: 1..MaxEpochs
MaxTrainBatches == 2    \* batches of a train_loader: 1..MaxTrainBatches

RandintHigh == 13

\* randint with high taken as inclusive
randint_inclusive(low, high) == low..high

\* np.random.randint(low, high): high is exclusive
randint(low, high) == low..(high - 1)

\* model(data): the forward pass builds enc_proj if it is not there yet
model_forward(m) == [m EXCEPT !.enc_proj = TRUE]

\* lazy_generate_modules without its forward pass
lazy_generate_modules_skipped(m, loader) == m

\* lazy_generate_modules(model, data_loader): one forward pass on the first
\* training batch, then break
lazy_generate_modules(m, loader) ==
  IF loader.train_batches > 0 THEN model_forward(m) ELSE m

\* build_optimizer(model): Adam over the parameters the model has now
build_optimizer(m) == [built |-> TRUE, enc_proj_params |-> m.enc_proj]

\* the body of train's loop with the counter stepped in the logging branch
train_batch_counted_when_logged(total, batch_idx, log_interval) ==
  LET logged == (batch_idx % log_interval = 0)
  IN  [logged |-> logged,
       logged_at |-> IF logged THEN total ELSE -1,
       TOTAL_ITER |-> IF logged THEN total + 1 ELSE total]

\* the body of train's loop for one batch, after optimizer.step(): whether
\* the batch is logged, the x value it is logged at, and TOTAL_ITER after it
train_batch(total, batch_idx, log_interval) ==
  LET logged == (batch_idx % log_interval = 0)
  IN  [logged |-> logged,
       logged_at |-> IF logged THEN total ELSE -1,
       TOTAL_ITER |-> total + 1]

\* The command lines of the runs: the defaults, with --epochs
RunCommandLines ==
  {[a EXCEPT !.epochs = e] :
     a \in {c \in CommandLines :
              /\ c.task = "mnist" /\ c.seed = PyNone
              /\ c.reparam_type = "isotropic_gaussian"
              /\ c.layer_type = "conv" /\ c.nll_type = "bernoulli"},
     e \in 1..MaxEpochs}

InitRun ==
  /\ VaeIdle
  /\ ElemIdle
  /\ args \in RunCommandLines
  /\ pc = "got_model"
  /\ np_seed = Unseeded
  /\ torch_seed = Unseeded
  /\ sampler_i = samplers_i
  /\ \E n \in 1..MaxTrainBatches :
       loaders = [k \in 1..NumClasses |->
                    [img_shp |-> img_shp(args.task),
                     class_number |-> sampler_call(k - 1, samplers_i),
                     train_batches |-> n]]
  /\ model = [built |-> TRUE, enc_proj |-> FALSE]
  /\ optimizer = NoOptimizer
  /\ TOTAL_ITER = 0
  /\ frame = NoFrame
  /\ batches_done = 0

\* run: lazy_generate_modules(model, data_loaders[0])
LazyGenerateModules ==
  /\ pc = "got_model"
  /\ model' = lazy_generate_modules(model, loaders[1])
  /\ pc' = "lazy_done"
  /\ UNCHANGED <<args, np_seed, torch_seed, sampler_i, loaders, optimizer, TOTAL_ITER,
                 frame, batches_done, vaeVars, elemVars>>

\* run: optimizer = build_optimizer(model)
BuildOptimizer ==
  /\ pc = "lazy_done"
  /\ optimizer' = build_optimizer(model)
  /\ pc' = "for_loader"
  /\ UNCHANGED <<args, np_seed, torch_seed, sampler_i, loaders, model, TOTAL_ITER,
                 frame, batches_done, vaeVars, elemVars>>

\* run: for loader in data_loaders, and the draw of num_epochs
ForLoader ==
  /\ pc = "for_loader"
  /\ IF frame.loader < Len(loaders)
     THEN \E r \in randint(0, RandintHigh) :
            /\ frame' = [loader |-> frame.loader + 1, num_epochs |-> args.epochs + r,
                         epoch |-> 0, batch_idx |-> 0, logged |-> FALSE]
            /\ pc' = "for_epoch"
     ELSE /\ pc' = "done"
          /\ frame' = frame
  /\ UNCHANGED <<args, np_seed, torch_seed, sampler_i, loaders, model, optimizer,
                 TOTAL_ITER, batches_done, vaeVars, elemVars>>

\* run: for epoch in range(1, num_epochs + 1), up to the call of train
ForEpoch ==
  /\ pc = "for_epoch"
  /\ IF frame.epoch < frame.num_epochs
     THEN /\ frame' = [frame EXCEPT !.epoch = @ + 1, !.batch_idx = 0, !.logged = FALSE]
          /\ pc' = "train"
     ELSE /\ frame' = frame
          /\ pc' = "for_loader"
  /\ UNCHANGED <<args, np_seed, torch_seed, sampler_i, loaders, model, optimizer,
                 TOTAL_ITER, batches_done, vaeVars, elemVars>>

\* train: one batch of loader.train_loader (zero_grad, forward, loss,
\* backward, step, logging, TOTAL_ITER += 1); after the last batch train
\* returns and run goes on to test
TrainBatch ==
  /\ pc = "train"
  /\ frame.batch_idx < loaders[frame.loader].train_batches
  /\ optimizer.built
  /\ LET b == train_batch(TOTAL_ITER, frame.batch_idx, args.log_interval)
     IN  /\ model' = model_forward(model)
         /\ TOTAL_ITER' = b.TOTAL_ITER
         /\ frame' = [frame EXCEPT !.batch_idx = @ + 1, !.logged = b.logged]
         /\ batches_done' = batches_done + 1
         /\ pc' = IF frame.batch_idx + 1 < loaders[frame.loader].train_batches
                  THEN "train" ELSE "test"
  /\ UNCHANGED <<args, np_seed, torch_seed, sampler_i, loaders, optimizer, vaeVars,
                 elemVars>>

\* test(epoch, model, loader, grapher): the whole pass over the test_loader
Test ==
  /\ pc = "test"
  /\ pc' = "for_epoch"
  /\ UNCHANGED <<args, np_seed, torch_seed, sampler_i, loaders, model, optimizer,
                 TOTAL_ITER, frame, batches_done, vaeVars, elemVars>>

NextRun ==
  \/ LazyGenerateModules
  \/ BuildOptimizer
  \/ ForLoader
  \/ ForEpoch
  \/ TrainBatch
  \/ Test

SpecRun == InitRun /\ [][NextRun]_vars

\* C14: the optimizer is built only after the forward pass that creates
\* enc_proj, so it holds enc_proj's parameters, and every training step runs
\* with such an optimizer
OptimizerHasProjection ==
  /\ optimizer.built => (model.enc_proj /\ optimizer.enc_proj_params)
  /\ (pc = "lazy_done") => model.enc_proj
  /\ (batches_done > 0) => (optimizer.built /\ optimizer.enc_proj_params)

\* C14 witness: a training step has run
TrainedWithOptimizer ==
  /\ batches_done > 0
  /\ optimizer.enc_proj_params
  /\ pc = "train"

\* C16: the loaders are taken in list order, one after the other; each gets
\* epochs 1..N with args.epochs <= N <= args.epochs + 12; an epoch is train
\* and then test on that loader; a loader's epochs are all done before the
\* next loader starts
RunOrder ==
  /\ [](frame.loader >= 1 =>
          /\ frame.num_epochs >= args.epochs
          /\ frame.num_epochs <= args.epochs + 12
          /\ frame.epoch <= frame.num_epochs
          /\ frame.loader <= Len(loaders))
  /\ [][/\ (frame'.loader # frame.loader) =>
             /\ frame'.loader = frame.loader + 1
             /\ frame.epoch = frame.num_epochs
             /\ pc = "for_loader"
             /\ frame'.epoch = 0
        /\ (frame'.loader = frame.loader /\ frame'.epoch # frame.epoch) =>
             /\ frame'.epoch = frame.epoch + 1
             /\ pc = "for_epoch"
             /\ pc' = "train"
        /\ (pc' = "train" /\ pc # "train") => pc = "for_epoch"
        /\ (pc = "train") => pc' \in {"train", "test"}
        /\ (pc' = "test") =>
             /\ pc = "train"
             /\ frame'.batch_idx = loaders[frame.loader].train_batches
        /\ (pc = "test") => (pc' = "for_epoch" /\ frame' = frame)
        /\ (pc' = "done") => (frame.loader = Len(loaders) /\ frame.epoch = frame.num_epochs)
       ]_vars

\* C16 witness: the second loader in its last epoch of the longest draw
SecondLoaderLastEpoch ==
  /\ pc = "test"
  /\ frame.loader = 2
  /\ frame.num_epochs = args.epochs + 12
  /\ frame.epoch = frame.num_epochs

\* C17: TOTAL_ITER starts at 0, goes up by one with every training batch,
\* logged or not, is left alone by everything else (test, a new epoch, a new
\* loader), and so always is the number of training batches done
TotalIterCountsBatches ==
  /\ [](/\ TOTAL_ITER = batches_done
        /\ (pc = "got_model") => TOTAL_ITER = 0)
  /\ [][/\ TOTAL_ITER' >= TOTAL_ITER
        /\ (pc = "train") => TOTAL_ITER' = TOTAL_ITER + 1
        /\ (pc # "train") => TOTAL_ITER' = TOTAL_ITER
       ]_vars

\* C17 witness: an unlogged batch, in a later epoch of a later loader
UnloggedBatchCounted ==
  /\ pc = "test"
  /\ ~frame.logged
  /\ frame.loader >= 2
  /\ frame.epoch >= 2
  /\ TOTAL_ITER = batches_done
  /\ TOTAL_ITER >= 4

====
